---- MODULE Spec2Model ----
(***************************************************************************)
(* nilmtk DataSet (src/nilmtk/dataset/dataset.py): the in-memory hierarchy *)
(* dataset -> buildings -> electric -> {mains, appliances, circuits} and   *)
(* its translation to the HDF5 store (load_hdf5 / export), to the CSV tree *)
(* (export_csv), and the load orchestration over the subclass hooks.       *)
(*                                                                         *)
(* Python strings are sequences of one-character strings, so that          *)
(* "%d" formatting, str.split, int() and the substring test `in` are       *)
(* computed as Python computes them.                                       *)
(***************************************************************************)
EXTENDS Integers, Sequences, FiniteSets, TLC

VARIABLES
    buildings,   \* DataSet.buildings : building number -> Building
    metadata,    \* DataSet.metadata  : dict
    sidecar,     \* <directory>/metadata.json : its text, or Absent
    store,       \* <directory>/dataset.h5 : key -> table
    csv,         \* the CSV files under <directory> : path -> content
    handle,      \* the HDFStore handle of the current / last call
    pc,          \* position inside the running call, "idle" between calls
    work,        \* what the running export loop has still to visit
    result,      \* the running / last call and how it ended
    exported,    \* DataSet.buildings as last exported into a fresh store
    names,       \* load: what load_building_names returned
    idx,         \* load: position of the for loop in names
    calls        \* load: the hook invocations of the running / last load

vars == <<buildings, metadata, sidecar, store, csv, handle, pc, work,
          result, exported, names, idx, calls>>

----------------------------------------------------------------------------
(* Bounds *)

MaxBuilding == 2     \* building numbers held by a dataset are 1..MaxBuilding
MaxIdent == 2        \* identifiers load_building_names returns are 1..MaxIdent
MaxNames == 4        \* at most this many identifiers are returned

----------------------------------------------------------------------------
(* Python strings *)

Digits == <<"0", "1", "2", "3", "4", "5", "6", "7", "8", "9">>

IsDigit(c) == \E i \in 1..10 : Digits[i] = c

DigitVal(c) == (CHOOSE i \in 1..10 : Digits[i] = c) - 1

\* "%d" % n
RECURSIVE FormatNat(_)
FormatNat(n) ==
    IF n < 10 THEN <<Digits[n + 1]>>
    ELSE FormatNat(n \div 10) \o <<Digits[(n % 10) + 1]>>

FormatD(n) == IF n < 0 THEN <<"-">> \o FormatNat(0 - n) ELSE FormatNat(n)

\* int(s) raises ValueError unless s is an optionally signed run of digits
IsIntLiteral(s) ==
    LET body == IF Len(s) > 0 /\ s[1] \in {"-", "+"} THEN Tail(s) ELSE s
    IN  Len(body) > 0 /\ \A i \in 1..Len(body) : IsDigit(body[i])

RECURSIVE ParseNat(_)
ParseNat(s) ==
    IF Len(s) = 0 THEN 0
    ELSE 10 * ParseNat(SubSeq(s, 1, Len(s) - 1)) + DigitVal(s[Len(s)])

ParseInt(s) ==
    IF s[1] = "-" THEN 0 - ParseNat(Tail(s))
    ELSE IF s[1] = "+" THEN ParseNat(Tail(s))
    ELSE ParseNat(s)

\* s.split(sep) for a one-character separator
RECURSIVE Split(_, _)
Split(s, sep) ==
    IF \A i \in 1..Len(s) : s[i] # sep THEN <<s>>
    ELSE LET i == CHOOSE k \in 1..Len(s) :
                      s[k] = sep /\ \A j \in 1..(k - 1) : s[j] # sep
         IN  <<SubSeq(s, 1, i - 1)>> \o Split(SubSeq(s, i + 1, Len(s)), sep)

\* word in s
Contains(word, s) ==
    \E i \in 0..(Len(s) - Len(word)) : SubSeq(s, i + 1, i + Len(word)) = word

\* the sequences that enumerate the set S once each
RECURSIVE Perms(_)
Perms(S) ==
    IF S = {} THEN {<<>>}
    ELSE UNION {{<<x>> \o p : p \in Perms(S \ {x})} : x \in S}

EmptyMap == [k \in {} |-> 0]

SLASH == <<"/">>
USCORE == <<"_">>
UTILITY == <<"u", "t", "i", "l", "i", "t", "y">>
ELECTRIC == <<"e", "l", "e", "c", "t", "r", "i", "c">>
MAINS == <<"m", "a", "i", "n", "s">>
APPLIANCES == <<"a", "p", "p", "l", "i", "a", "n", "c", "e", "s">>
CIRCUITS == <<"c", "i", "r", "c", "u", "i", "t", "s">>
BUILDING_ == <<"b", "u", "i", "l", "d", "i", "n", "g", "_">>
DOTCSV == <<".", "c", "s", "v">>
POWER == <<"p", "o", "w", "e", "r">>
ACTIVE == <<"a", "c", "t", "i", "v", "e">>
TV == <<"t", "v">>
A_SLASH_B == <<"a", "/", "b">>
KITCHEN == <<"k", "i", "t", "c", "h", "e", "n">>

----------------------------------------------------------------------------
(* Data model: identifier types, column keys, tables, Building *)

MainsName(split, meter) == [split |-> split, meter |-> meter]

ApplianceName(name, instance) == [name |-> name, instance |-> instance]

CircuitName(name, split, meter) == [name |-> name, split |-> split, meter |-> meter]

Measurement(physical_quantity, type) ==
    [physical_quantity |-> physical_quantity, type |-> type]

DualSupply(measurement, supply) == [measurement |-> measurement, supply |-> supply]

\* isinstance(x, DualSupply)
IsDualSupply(x) == "supply" \in DOMAIN x

\* a DataFrame: a nanosecond DatetimeIndex and its column keys; id stands
\* for the values it holds
Table(id, columns) ==
    [id |-> id, index |-> <<1500000000, 2100000000>>, columns |-> columns]

SingleColumns == <<Measurement(POWER, ACTIVE)>>

DualColumns == <<DualSupply(Measurement(POWER, ACTIVE), 1),
                 DualSupply(Measurement(POWER, ACTIVE), 2)>>

\* Building(): the three mappings of building.utility.electric, empty
EmptyBuilding == [mains |-> EmptyMap, appliances |-> EmptyMap, circuits |-> EmptyMap]

HouseBuilding ==
    [mains |-> (MainsName(1, 1) :> Table(1, SingleColumns)),
     appliances |-> (ApplianceName(TV, 1) :> Table(2, DualColumns)),
     circuits |-> EmptyMap]

CircuitBuilding ==
    [mains |-> (MainsName(1, 2) :> Table(3, SingleColumns)),
     appliances |-> EmptyMap,
     circuits |-> (CircuitName(KITCHEN, 1, 1) :> Table(4, SingleColumns))]

MainsNamedBuilding ==
    [mains |-> EmptyMap,
     appliances |-> (ApplianceName(MAINS, 1) :> Table(5, SingleColumns)),
     circuits |-> EmptyMap]

SlashNamedBuilding ==
    [mains |-> EmptyMap,
     appliances |-> (ApplianceName(A_SLASH_B, 2) :> Table(6, SingleColumns)),
     circuits |-> EmptyMap]

\* the buildings a subclass's load_building hands to the dataset
SampleBuildings ==
    {EmptyBuilding, HouseBuilding, CircuitBuilding, MainsNamedBuilding,
     SlashNamedBuilding}

BuildingNumbers == 1..MaxBuilding

SampleDatasets ==
    UNION {[S -> SampleBuildings] : S \in SUBSET BuildingNumbers}

EmptyMetadata == EmptyMap

SampleMetadata == {EmptyMetadata, [name |-> "REDD"]}

----------------------------------------------------------------------------
(* The directory: metadata.json and dataset.h5 *)

Absent == [exists |-> FALSE, valid |-> FALSE, members |-> {}]

\* a metadata.json that is not JSON (also what a failed write leaves)
Truncated == [exists |-> TRUE, valid |-> FALSE, members |-> {}]

\* json.dumps(d): the text of a JSON object, one member per key of d
JsonDumps(d) ==
    [exists |-> TRUE, valid |-> TRUE, members |-> {<<k, d[k]>> : k \in DOMAIN d}]

\* json.loads(text): the dict of the object's members
JsonLoads(text) ==
    [k \in {m[1] : m \in text.members} |->
        (CHOOSE m \in text.members : m[1] = k)[2]]

RECURSIVE JoinPath(_)
JoinPath(segs) ==
    IF segs = <<>> THEN <<>> ELSE SLASH \o Head(segs) \o JoinPath(Tail(segs))

NonEmptySeg(s) == Len(s) > 0

\* the node path HDFStore.put creates for key: empty segments are skipped
NodePath(key) == JoinPath(SelectSeq(Split(key, "/"), NonEmptySeg))

\* store.put(key, df, table=True)
StorePut(st, key, df) == (NodePath(key) :> df) @@ st

\* '/%d/utility/electric/mains/%d/%d/' % (building_number, main.split, main.meter)
MainsKey(building_number, main) ==
    SLASH \o FormatD(building_number) \o SLASH \o UTILITY \o SLASH \o ELECTRIC
        \o SLASH \o MAINS \o SLASH \o FormatD(main.split) \o SLASH
        \o FormatD(main.meter) \o SLASH

\* '%d/utility/electric/appliances/%s/%d/' % (building_number, name, instance)
ApplianceKey(building_number, appliance) ==
    FormatD(building_number) \o SLASH \o UTILITY \o SLASH \o ELECTRIC
        \o SLASH \o APPLIANCES \o SLASH \o appliance.name \o SLASH
        \o FormatD(appliance.instance) \o SLASH

EmptyStore == EmptyMap

\* a store written by another tool: one well-formed appliance series and
\* one mains series nested a level deeper
ForeignStore ==
    (NodePath(ApplianceKey(2, ApplianceName(TV, 3))) :> Table(7, SingleColumns))
    @@ (NodePath(MainsKey(2, MainsName(1, 2)) \o <<"4">>) :> Table(8, SingleColumns))

SampleStores == {EmptyStore, ForeignStore}

SampleSidecars == {Absent, Truncated, JsonDumps([name |-> "UKPD"])}

----------------------------------------------------------------------------
(* Call bookkeeping *)

Running(op) == [op |-> op, status |-> "running", at |-> ""]

Returned(op) == [op |-> op, status |-> "ok", at |-> ""]

Raised(op, error, at) == [op |-> op, status |-> error, at |-> at]

NoSnapshot == [valid |-> FALSE, fresh |-> FALSE, buildings |-> EmptyMap]

\* the (building, category, name) visits of "for building_number in
\* self.buildings: for name in <category>: ..." in each order the dicts
\* may iterate in
ItemSeqs(D, b, category) ==
    {[i \in DOMAIN p |->
        [building_number |-> b, category |-> category, name |-> p[i]]] :
        p \in Perms(DOMAIN D[b][category])}

RECURSIVE BuildingWork(_, _, _)
BuildingWork(D, b, categories) ==
    IF categories = <<>> THEN {<<>>}
    ELSE {h \o t : h \in ItemSeqs(D, b, Head(categories)),
                   t \in BuildingWork(D, b, Tail(categories))}

RECURSIVE WorkAlong(_, _, _)
WorkAlong(D, order, categories) ==
    IF order = <<>> THEN {<<>>}
    ELSE {h \o t : h \in BuildingWork(D, Head(order), categories),
                   t \in WorkAlong(D, Tail(order), categories)}

\* "for building_number in self.buildings": a CPython 2 dict of small
\* non-negative ints keeps key n in slot n and iterates by slot, so the
\* building numbers come in ascending order
RECURSIVE Ascending(_)
Ascending(S) ==
    IF S = {} THEN <<>>
    ELSE LET least == CHOOSE x \in S : \A y \in S : x <= y
         IN  <<least>> \o Ascending(S \ {least})

WorkLists(D, categories) == WorkAlong(D, Ascending(DOMAIN D), categories)

----------------------------------------------------------------------------
(* DataSet.export *)

ExportStepsStoreFirst == <<"open", "put", "sidecar", "close">>

\* the statements of export in program order: the metadata.json write (with
\* os.makedirs), pd.HDFStore(...), the store.put loop, store.close()
ExportSteps == <<"sidecar", "open", "put", "close">>

StepAfter(step) ==
    LET i == CHOOSE k \in DOMAIN ExportSteps : ExportSteps[k] = step
    IN  IF i < Len(ExportSteps) THEN ExportSteps[i + 1] ELSE "idle"

\* the statement at pc completed
ExportAdvance ==
    /\ pc' = StepAfter(pc)
    /\ result' = IF StepAfter(pc) = "idle" THEN Returned("export") ELSE result
    /\ exported' = IF StepAfter(pc) = "idle"
                   THEN [valid |-> exported.fresh, fresh |-> exported.fresh,
                         buildings |-> IF exported.fresh THEN buildings
                                       ELSE EmptyMap]
                   ELSE exported

\* the statement at pc raised: nothing below it runs
ExportRaise ==
    /\ pc' = "idle"
    /\ result' = Raised("export", "IOError", pc)
    /\ exported' = NoSnapshot

ExportCall ==
    /\ pc = "idle"
    /\ pc' = Head(ExportSteps)
    /\ result' = Running("export")
    /\ handle' = "none"
    /\ \E w \in WorkLists(buildings, <<"mains", "appliances">>) : work' = w
    /\ exported' = [valid |-> FALSE, fresh |-> store = EmptyStore,
                    buildings |-> EmptyMap]
    /\ UNCHANGED <<buildings, metadata, sidecar, store, csv, names, idx, calls>>

\* if not os.path.exists(directory): os.makedirs(directory)
\* with open(.../metadata.json, 'w') as fp: fp.write(json.dumps(self.metadata))
ExportSidecar ==
    /\ pc = "sidecar"
    /\ sidecar' = JsonDumps(metadata)
    /\ ExportAdvance
    /\ UNCHANGED <<buildings, metadata, store, csv, handle, work,
                   names, idx, calls>>

\* store = pd.HDFStore(.../dataset.h5, complevel=9, complib='zlib')
ExportOpen ==
    /\ pc = "open"
    /\ \/ handle' = "open" /\ ExportAdvance
       \/ handle' = handle /\ ExportRaise
    /\ UNCHANGED <<buildings, metadata, sidecar, store, csv, work,
                   names, idx, calls>>

ExportKey(item) ==
    IF item.category = "mains"
    THEN MainsKey(item.building_number, item.name)
    ELSE ApplianceKey(item.building_number, item.name)

\* one store.put of the loops over mains and appliances
ExportPut ==
    /\ pc = "put"
    /\ work # <<>>
    /\ LET item == Head(work)
           df == buildings[item.building_number][item.category][item.name]
       IN  \/ /\ store' = StorePut(store, ExportKey(item), df)
              /\ work' = Tail(work)
              /\ UNCHANGED <<pc, result, exported>>
           \/ /\ ExportRaise
              /\ UNCHANGED <<store, work>>
    /\ UNCHANGED <<buildings, metadata, sidecar, csv, handle, names, idx, calls>>

\* the loop over self.buildings is exhausted
ExportPutDone ==
    /\ pc = "put"
    /\ work = <<>>
    /\ ExportAdvance
    /\ UNCHANGED <<buildings, metadata, sidecar, store, csv, handle, work,
                   names, idx, calls>>

\* store.close()
ExportClose ==
    /\ pc = "close"
    /\ handle' = "closed"
    /\ ExportAdvance
    /\ UNCHANGED <<buildings, metadata, sidecar, store, csv, work,
                   names, idx, calls>>

Export ==
    \/ ExportCall
    \/ ExportSidecar
    \/ ExportOpen
    \/ ExportPut
    \/ ExportPutDone
    \/ ExportClose

----------------------------------------------------------------------------
(* DataSet.export_csv *)

CsvCategories == {"mains", "appliances", "circuits"}

\* namedtuple_map[df_type](x)
NamedtupleMap(df_type, x) ==
    CASE df_type = "mains" ->
            FormatD(x.split) \o USCORE \o FormatD(x.meter) \o DOTCSV
      [] df_type = "appliances" ->
            x.name \o USCORE \o FormatD(x.instance) \o DOTCSV
      [] df_type = "circuits" ->
            x.name \o USCORE \o FormatD(x.split) \o USCORE \o FormatD(x.meter)
                \o DOTCSV

\* folder_path_map[df_type](building_number)
FolderPathMap(df_type, building_number) ==
    BUILDING_ \o FormatD(building_number) \o SLASH \o UTILITY \o SLASH
        \o ELECTRIC \o SLASH
        \o (CASE df_type = "mains" -> MAINS
              [] df_type = "appliances" -> APPLIANCES
              [] df_type = "circuits" -> CIRCUITS)
        \o SLASH

\* column_mapping[column](x) raises AttributeError when x lacks the fields
ColumnMappingApplies(column, x) ==
    IF column = "dual" THEN IsDualSupply(x) ELSE "physical_quantity" \in DOMAIN x

\* column_mapping[column](x): the CSV column header
ColumnMapping(column, x) ==
    IF column = "dual"
    THEN [text |-> x.measurement.physical_quantity \o USCORE
                       \o x.measurement.type \o USCORE \o FormatD(x.supply)]
    ELSE [text |-> x.physical_quantity \o USCORE \o x.type]

\* (df.index.astype(int) / 1e9).astype(int) and rename(columns=...)
CsvFrame(df, column) ==
    [id |-> df.id,
     index |-> [i \in DOMAIN df.index |-> df.index[i] \div 1000000000],
     columns |-> [i \in DOMAIN df.columns |-> ColumnMapping(column, df.columns[i])]]

\* a create_path_df that renames and re-indexes df itself
CreatePathDfInPlace(files, building_number, df_name, df, df_type, column) ==
    IF df_type \notin CsvCategories
    THEN [err |-> "KeyError", files |-> files, df |-> df]
    ELSE IF \E i \in DOMAIN df.columns :
                ~ColumnMappingApplies(column, df.columns[i])
    THEN [err |-> "AttributeError", files |-> files, df |-> df]
    ELSE LET temp == CsvFrame(df, column)
             path == FolderPathMap(df_type, building_number)
                         \o NamedtupleMap(df_type, df_name)
         IN  [err |-> "", files |-> (path :> temp) @@ files, df |-> temp]

\* create_path_df: .files are the CSV files after the call, .df is the
\* caller's table after the call (temp is a copy, so df keeps its value)
CreatePathDf(files, building_number, df_name, df, df_type, column) ==
    IF df_type \notin CsvCategories
    THEN [err |-> "KeyError", files |-> files, df |-> df]
    ELSE IF \E i \in DOMAIN df.columns :
                ~ColumnMappingApplies(column, df.columns[i])
    THEN [err |-> "AttributeError", files |-> files, df |-> df]
    ELSE LET temp == CsvFrame(df, column)
             path == FolderPathMap(df_type, building_number)
                         \o NamedtupleMap(df_type, df_name)
         IN  [err |-> "", files |-> (path :> temp) @@ files, df |-> df]

\* the body of the three loops of export_csv for one table
ExportCsvItem(files, item, df) ==
    CASE item.category = "mains" ->
            CreatePathDf(files, item.building_number, item.name, df,
                         "mains", "single")
      [] item.category = "appliances" ->
            IF Len(df.columns) = 0
            THEN [err |-> "IndexError", files |-> files, df |-> df]
            ELSE IF IsDualSupply(df.columns[1])
            THEN CreatePathDf(files, item.building_number, item.name, df,
                              "appliances", "dual")
            ELSE CreatePathDf(files, item.building_number, item.name, df,
                              "appliances", "single")
      [] item.category = "circuits" ->
            CreatePathDf(files, item.building_number, item.name, df,
                         "circuit", "single")

\* the loop over self.buildings, left at the first error
RECURSIVE ExportCsvLoop(_, _)
ExportCsvLoop(w, acc) ==
    IF w = <<>> \/ acc.err # "" THEN acc
    ELSE LET item == Head(w)
             b == item.building_number
             df == acc.buildings[b][item.category][item.name]
             r == ExportCsvItem(acc.files, item, df)
         IN  ExportCsvLoop(Tail(w),
                 [err |-> r.err, files |-> r.files,
                  buildings |->
                    [acc.buildings EXCEPT ![b][item.category][item.name] = r.df]])

ExportCsv ==
    /\ pc = "idle"
    /\ sidecar' = JsonDumps(metadata)
    /\ \E w \in WorkLists(buildings, <<"mains", "appliances", "circuits">>) :
          LET r == ExportCsvLoop(w, [err |-> "", files |-> csv,
                                     buildings |-> buildings])
          IN  /\ csv' = r.files
              /\ buildings' = r.buildings
              /\ result' = IF r.err = "" THEN Returned("export_csv")
                           ELSE Raised("export_csv", r.err, "")
    /\ handle' = "none"
    /\ UNCHANGED <<metadata, store, pc, work, exported, names, idx, calls>>

----------------------------------------------------------------------------
(* DataSet.load_hdf5 *)

\* key.split("/")[-2] and key.split("/")[-1]
LastTwo(key) ==
    LET segs == Split(key, "/")
    IN  <<segs[Len(segs) - 1], segs[Len(segs)]>>

\* one pass of "for key in keys_mains": MainsName(int(..), int(..)) and the
\* assignment of store[key]
LoadMainsKey(key, acc) ==
    LET c == LastTwo(key)
    IN  IF ~IsIntLiteral(c[1]) \/ ~IsIntLiteral(c[2])
        THEN [acc EXCEPT !.err = "ValueError"]
        ELSE [acc EXCEPT !.map =
                 (MainsName(ParseInt(c[1]), ParseInt(c[2])) :> store[key])
                     @@ acc.map]

\* one pass of "for key in keys_appliances"
LoadApplianceKey(key, acc) ==
    LET c == LastTwo(key)
    IN  IF ~IsIntLiteral(c[2])
        THEN [acc EXCEPT !.err = "ValueError"]
        ELSE [acc EXCEPT !.map =
                 (ApplianceName(c[1], ParseInt(c[2])) :> store[key])
                     @@ acc.map]

\* the loop "for key in keys_mains", left at the first error, in every
\* order store.keys() may list the keys
RECURSIVE LoadMains(_, _)
LoadMains(keys_mains, acc) ==
    IF keys_mains = {} \/ acc.err # "" THEN {acc}
    ELSE UNION {LoadMains(keys_mains \ {key}, LoadMainsKey(key, acc)) :
                    key \in keys_mains}

RECURSIVE LoadAppliances(_, _)
LoadAppliances(keys_appliances, acc) ==
    IF keys_appliances = {} \/ acc.err # "" THEN {acc}
    ELSE UNION {LoadAppliances(keys_appliances \ {key},
                               LoadApplianceKey(key, acc)) :
                    key \in keys_appliances}

\* the body of "for building_number in building_numbers" after the new
\* Building was added: each .b is a Building as the body may leave it
LoadHdf5Building(building_number, keys) ==
    LET keys_building == {key \in keys : Split(key, "/")[2] = building_number}
        keys_utilities == {key \in keys_building : Contains(UTILITY, key)}
        keys_electric == {key \in keys_utilities : Contains(ELECTRIC, key)}
        keys_mains == {key \in keys_electric : Contains(MAINS, key)}
        keys_appliances == {key \in keys_electric : Contains(APPLIANCES, key)}
        start == [err |-> "", map |-> EmptyMap]
    IN  IF keys_utilities = {} THEN {[err |-> "", b |-> EmptyBuilding]}
        ELSE UNION {
            IF m.err # ""
            THEN {[err |-> m.err, b |-> [EmptyBuilding EXCEPT !.mains = m.map]]}
            ELSE {[err |-> a.err,
                   b |-> [EmptyBuilding EXCEPT !.mains = m.map,
                                               !.appliances = a.map]] :
                      a \in LoadAppliances(keys_appliances, start)} :
            m \in LoadMains(keys_mains, start)}

\* the loop over building_numbers, left at the first error, in every order
\* list(set(...)) may have
RECURSIVE LoadHdf5Loop(_, _, _)
LoadHdf5Loop(building_numbers, keys, acc) ==
    IF building_numbers = {} \/ acc.err # "" THEN {acc}
    ELSE UNION {
        IF ~IsIntLiteral(building_number)
        THEN {[acc EXCEPT !.err = "ValueError"]}
        ELSE UNION {
            LoadHdf5Loop(building_numbers \ {building_number}, keys,
                [err |-> r.err,
                 buildings |-> (ParseInt(building_number) :> r.b)
                                  @@ acc.buildings]) :
            r \in LoadHdf5Building(building_number, keys)} :
        building_number \in building_numbers}

LoadHdf5 ==
    /\ pc = "idle"
    /\ IF sidecar.exists /\ ~sidecar.valid
       THEN \* json.loads raises before the store is opened
            /\ result' = Raised("load_hdf5", "ValueError", "metadata")
            /\ handle' = "none"
            /\ UNCHANGED <<buildings, metadata>>
       ELSE /\ metadata' = IF sidecar.exists THEN JsonLoads(sidecar) ELSE metadata
            /\ handle' = "open"
            /\ \E r \in LoadHdf5Loop({Split(key, "/")[2] : key \in DOMAIN store},
                                     DOMAIN store,
                                     [err |-> "", buildings |-> EmptyMap]) :
                  /\ buildings' = r.buildings
                  /\ result' = IF r.err = "" THEN Returned("load_hdf5")
                               ELSE Raised("load_hdf5", r.err, "keys")
    /\ UNCHANGED <<sidecar, store, csv, pc, work, exported, names, idx, calls>>

----------------------------------------------------------------------------
(* DataSet.load and the hooks a subclass overrides *)

Identifiers == 1..MaxIdent

RECURSIVE SeqsUpTo(_, _)
SeqsUpTo(S, n) ==
    IF n = 0 THEN {<<>>}
    ELSE LET shorter == SeqsUpTo(S, n - 1)
         IN  shorter \cup {Append(q, x) : q \in shorter, x \in S}

\* what a subclass's load_building_names may return
NameSeqs == SeqsUpTo(Identifiers, MaxNames)

\* the Building a subclass parses for an identifier
ParsedBuilding(building_name) ==
    IF building_name % 2 = 1 THEN HouseBuilding ELSE EmptyBuilding

\* a subclass's load_building: the parsed Building is put into the dataset
LoadBuildingHook(D, building_name) ==
    (building_name :> ParsedBuilding(building_name)) @@ D

HookCall(hook, arg) == [hook |-> hook, arg |-> arg]

RECURSIVE Distinct(_)
Distinct(q) ==
    IF q = <<>> THEN <<>>
    ELSE LET front == Distinct(SubSeq(q, 1, Len(q) - 1))
         IN  IF \E i \in DOMAIN front : front[i] = q[Len(q)] THEN front
             ELSE Append(front, q[Len(q)])

\* a loop over the distinct identifiers only
LoadIterableDistinct(building_names) == Distinct(building_names)

\* "for building in building_names": what the loop of load visits
LoadIterable(building_names) == building_names

\* a load that goes on with the next identifier after a failure
LoadBuildingRaisedContinue(i) == [pc |-> "load_loop", idx |-> i + 1]

\* load_building raised in pass i of the loop: nothing catches it, the loop
\* and load are left
LoadBuildingRaised(i) == [pc |-> "idle", idx |-> i]

\* building_names = self.load_building_names(root_directory)
LoadCall ==
    /\ pc = "idle"
    /\ calls' = <<HookCall("load_building_names", 0)>>
    /\ handle' = "none"
    /\ \/ \E building_names \in NameSeqs :
             /\ names' = building_names
             /\ idx' = 1
             /\ pc' = "load_loop"
             /\ result' = Running("load")
       \/ /\ names' = <<>>
          /\ idx' = 0
          /\ pc' = "idle"
          /\ result' = Raised("load", "SourceLoadError", "load_building_names")
    /\ UNCHANGED <<buildings, metadata, sidecar, store, csv, work, exported>>

\* one pass of the loop: self.load_building(root_directory, building)
LoadBuilding ==
    /\ pc = "load_loop"
    /\ idx <= Len(LoadIterable(names))
    /\ LET building == LoadIterable(names)[idx]
       IN  /\ calls' = Append(calls, HookCall("load_building", building))
           /\ \/ /\ buildings' = LoadBuildingHook(buildings, building)
                 /\ idx' = idx + 1
                 /\ UNCHANGED <<pc, result>>
              \/ /\ pc' = LoadBuildingRaised(idx).pc
                 /\ idx' = LoadBuildingRaised(idx).idx
                 /\ result' = Raised("load", "SourceLoadError", "load_building")
                 /\ UNCHANGED buildings
    /\ UNCHANGED <<metadata, sidecar, store, csv, handle, work, exported, names>>

\* the loop is exhausted: load returns
LoadReturn ==
    /\ pc = "load_loop"
    /\ idx > Len(LoadIterable(names))
    /\ pc' = "idle"
    /\ result' = IF result.status = "running" THEN Returned("load") ELSE result
    /\ UNCHANGED <<buildings, metadata, sidecar, store, csv, handle, work,
                   exported, names, idx, calls>>

----------------------------------------------------------------------------
(* Specifications *)

Init ==
    /\ buildings \in SampleDatasets
    /\ metadata \in SampleMetadata
    /\ sidecar \in SampleSidecars
    /\ store \in SampleStores
    /\ csv = EmptyMap
    /\ handle = "none"
    /\ pc = "idle"
    /\ work = <<>>
    /\ result = Running("none")
    /\ exported = NoSnapshot
    /\ names = <<>>
    /\ idx = 0
    /\ calls = <<>>

Next ==
    \/ ExportCall
    \/ ExportSidecar
    \/ ExportOpen
    \/ ExportPut
    \/ ExportPutDone
    \/ ExportClose
    \/ ExportCsv
    \/ LoadHdf5

Spec == Init /\ [][Next]_vars

\* export and export_csv of a loaded dataset into a directory without a store
InitExport ==
    /\ buildings \in SampleDatasets
    /\ metadata \in SampleMetadata
    /\ sidecar \in {Absent, JsonDumps([name |-> "UKPD"])}
    /\ store = EmptyStore
    /\ csv = EmptyMap
    /\ handle = "none"
    /\ pc = "idle"
    /\ work = <<>>
    /\ result = Running("none")
    /\ exported = NoSnapshot
    /\ names = <<>>
    /\ idx = 0
    /\ calls = <<>>

NextExport ==
    \/ ExportCall
    \/ ExportSidecar
    \/ ExportOpen
    \/ ExportPut
    \/ ExportPutDone
    \/ ExportClose
    \/ ExportCsv

SpecExport == InitExport /\ [][NextExport]_vars

\* load on a newly constructed DataSet of a subclass
InitLoad ==
    /\ buildings = EmptyMap
    /\ metadata = EmptyMetadata
    /\ sidecar = Absent
    /\ store = EmptyStore
    /\ csv = EmptyMap
    /\ handle = "none"
    /\ pc = "idle"
    /\ work = <<>>
    /\ result = Running("none")
    /\ exported = NoSnapshot
    /\ names = <<>>
    /\ idx = 0
    /\ calls = <<>>

NextLoad ==
    \/ LoadCall
    \/ LoadBuilding
    \/ LoadReturn

SpecLoad == InitLoad /\ [][NextLoad]_vars

----------------------------------------------------------------------------
(* Properties *)

\* a key /B/utility/electric/<category>/C1/C2 with B and C2 integers and,
\* for mains, C1 an integer
WellFormedKey(key) ==
    LET segs == Split(key, "/")
    IN  /\ Len(segs) = 7
        /\ segs[1] = <<>>
        /\ IsIntLiteral(segs[2])
        /\ segs[3] = UTILITY
        /\ segs[4] = ELECTRIC
        /\ segs[5] \in {MAINS, APPLIANCES}
        /\ IsIntLiteral(segs[7])
        /\ (segs[5] = MAINS => IsIntLiteral(segs[6]))

KeysOf(b, category) ==
    {key \in DOMAIN store :
        LET segs == Split(key, "/")
        IN  ParseInt(segs[2]) = b /\ segs[5] = category}

\* load_hdf5 got as far as reading the store, and the call is over
LoadHdf5ReadStore ==
    pc = "idle" /\ result.op = "load_hdf5" /\ result.at # "metadata"

\* C1: export into a directory that holds no store yet, followed by
\* load_hdf5 of that directory, succeeds and gives a dataset with the same
\* building numbers and, for each building, the same mains and appliance
\* names mapped to the tables that were stored.
C1_RoundTrip ==
    (pc = "idle" /\ result.op = "load_hdf5" /\ exported.valid) =>
        /\ result.status = "ok"
        /\ DOMAIN buildings = DOMAIN exported.buildings
        /\ \A b \in DOMAIN buildings :
              /\ buildings[b].mains = exported.buildings[b].mains
              /\ buildings[b].appliances = exported.buildings[b].appliances

\* <directory>/building_<B>/utility/electric/<category>/<file name>.csv
ExpectedCsvPath(b, category, name) ==
    BUILDING_ \o FormatD(b) \o SLASH \o UTILITY \o SLASH \o ELECTRIC \o SLASH
        \o (CASE category = "mains" ->
                    MAINS \o SLASH \o FormatD(name.split) \o USCORE
                        \o FormatD(name.meter)
              [] category = "appliances" ->
                    APPLIANCES \o SLASH \o name.name \o USCORE
                        \o FormatD(name.instance)
              [] category = "circuits" ->
                    CIRCUITS \o SLASH \o name.name \o USCORE
                        \o FormatD(name.split) \o USCORE \o FormatD(name.meter))
        \o DOTCSV

\* C2: export_csv completes without error and the CSV files of the
\* directory are exactly one per table of every building in mains,
\* appliances and circuits, each at its path.
C2_CsvPerTable ==
    (pc = "idle" /\ result.op = "export_csv") =>
        /\ result.status = "ok"
        /\ DOMAIN csv =
              UNION {UNION {{ExpectedCsvPath(b, category, name) :
                                name \in DOMAIN buildings[b][category]} :
                            category \in CsvCategories} :
                     b \in DOMAIN buildings}

\* the hook invocations of a load that got through n passes of its loop
ExpectedCalls(building_names, n) ==
    <<HookCall("load_building_names", 0)>>
        \o [j \in 1..n |-> HookCall("load_building", building_names[j])]

LoadBuildingFailed ==
    /\ result.op = "load"
    /\ result.status = "SourceLoadError"
    /\ result.at = "load_building"

\* C3: when load_building fails on the k-th identifier, load is over with
\* that error, the buildings of identifiers 1..k-1 are in the dataset, and
\* load_building was invoked for identifiers 1..k only.
C3_LoadAborts ==
    LoadBuildingFailed =>
        /\ pc = "idle"
        /\ calls = ExpectedCalls(names, idx)
        /\ \A j \in 1..(idx - 1) :
              /\ names[j] \in DOMAIN buildings
              /\ buildings[names[j]] = ParsedBuilding(names[j])

C3_Witness ==
    /\ LoadBuildingFailed
    /\ pc = "idle"
    /\ idx = 3
    /\ Len(names) > 3
    /\ names[1] # names[2]
    /\ {names[1], names[2]} \subseteq DOMAIN buildings
    /\ Len(calls) = 4

\* C4: load invokes load_building_names once, first, and then load_building
\* once per returned identifier in the returned order and nothing else: at
\* every point of a load that has not failed the invocations so far are that
\* prefix, and at its return they are the whole list.
C4_LoadProtocol ==
    /\ result = Running("load") => calls = ExpectedCalls(names, idx - 1)
    /\ result = Returned("load") => calls = ExpectedCalls(names, Len(names))

C4_Witness ==
    /\ result = Returned("load")
    /\ pc = "idle"
    /\ Len(names) >= 3
    /\ names[1] = names[3]
    /\ names[1] # names[2]
    /\ Len(calls) = Len(names) + 1

\* C5: when every key of the store has the form
\* /B/utility/electric/<category>/C1/C2, load_hdf5 succeeds, the buildings
\* are the int(B), and each building's mains are exactly the
\* MainsName(int(C1), int(C2)) of its mains keys and its appliances exactly
\* the ApplianceName(C1, int(C2)) of its appliances keys, each with the
\* table of its key.
C5_KeyDecomposition ==
    (LoadHdf5ReadStore /\ \A key \in DOMAIN store : WellFormedKey(key)) =>
        /\ result.status = "ok"
        /\ DOMAIN buildings =
              {ParseInt(Split(key, "/")[2]) : key \in DOMAIN store}
        /\ \A b \in DOMAIN buildings :
              /\ DOMAIN buildings[b].mains =
                    {MainsName(ParseInt(Split(key, "/")[6]),
                               ParseInt(Split(key, "/")[7])) :
                        key \in KeysOf(b, MAINS)}
              /\ DOMAIN buildings[b].appliances =
                    {ApplianceName(Split(key, "/")[6],
                                   ParseInt(Split(key, "/")[7])) :
                        key \in KeysOf(b, APPLIANCES)}
              /\ \A key \in KeysOf(b, MAINS) :
                    buildings[b].mains[MainsName(ParseInt(Split(key, "/")[6]),
                                                 ParseInt(Split(key, "/")[7]))]
                        = store[key]
              /\ \A key \in KeysOf(b, APPLIANCES) :
                    buildings[b].appliances[
                        ApplianceName(Split(key, "/")[6],
                                      ParseInt(Split(key, "/")[7]))]
                        = store[key]

\* C6: load_hdf5 fails when some key of the store does not have exactly the
\* segments building/utility/electric/category/comp1/comp2.
C6_MalformedKeyRejected ==
    (LoadHdf5ReadStore /\ \E key \in DOMAIN store : Len(Split(key, "/")) # 7)
        => result.status # "ok"

\* C7: after load_hdf5 returned, the metadata is the parsed sidecar if the
\* sidecar exists and is empty if it does not.
C7_MetadataFromSidecar ==
    (pc = "idle" /\ result = Returned("load_hdf5")) =>
        metadata = IF sidecar.exists THEN JsonLoads(sidecar) ELSE EmptyMetadata

\* C8: no step of export or export_csv, failing or not, changes the
\* buildings, their mains, appliances and circuits tables, or the metadata.
C8_ExportFrame ==
    [][(Export \/ ExportCsv) =>
          (buildings' = buildings /\ metadata' = metadata)]_vars

C8_Witness ==
    /\ pc = "idle"
    /\ result = Returned("export_csv")
    /\ store # EmptyStore
    /\ \E b \in DOMAIN buildings :
          /\ buildings[b].mains # EmptyMap
          /\ buildings[b].appliances # EmptyMap
          /\ \A category \in {"mains", "appliances"} :
                \A name \in DOMAIN buildings[b][category] :
                    ExpectedCsvPath(b, category, name) \in DOMAIN csv

\* C9: when export or load_hdf5 is over, by return or by error, the store
\* handle the call opened is closed.
C9_HandleReleased ==
    (pc = "idle" /\ result.op \in {"export", "load_hdf5"}) => handle # "open"

\* C10: in export the sidecar holds the dataset's metadata from before the
\* store is opened: while the store is open, and after opening or writing
\* the store failed.
C10_SidecarFirst ==
    /\ (result = Running("export") /\ handle = "open")
          => sidecar = JsonDumps(metadata)
    /\ (result.op = "export" /\ result.status = "IOError")
          => sidecar = JsonDumps(metadata)

C10_Witness ==
    /\ result = Raised("export", "IOError", "put")
    /\ store # EmptyStore
    /\ metadata # EmptyMetadata
    /\ sidecar = JsonDumps(metadata)

====
